---- MODULE Spec2Model ----
(***************************************************************************)
(* Model of BMAC (src/pyshell.py): one serial command session.             *)
(*                                                                         *)
(* A Python str is a sequence of code points, a bytes object a sequence of *)
(* integers 0..255.  A call of BMAC.send is followed through its transport *)
(* operations: flushInput, flushOutput, write, readline.  The transport    *)
(* is the environment: it may fault on write or on readline, and readline  *)
(* may return any byte sequence, the empty one included (timeout).         *)
(***************************************************************************)
EXTENDS Integers, Sequences, FiniteSets, TLC

VARIABLES
    ser,          \* self.ser after __init__: "open", "closed" (created without a
                  \* port, never opened) or "missing" (serial.Serial raised)
    address,      \* self.address: None or <<a>>
    pc,           \* position of the caller / of send
    arg,          \* the string the caller passed to send
    lacommande,   \* the local lacommande after lines 60-62
    checksum,     \* the local checksum after line 63
    frame,        \* lacommande_bytes after line 71
    reponse,      \* the bytes readline returned
    log,          \* the transport operations of the current call, in order
    result        \* what send returned or raised

vars == <<ser, address, pc, arg, lacommande, checksum, frame, reponse, log, result>>

-----------------------------------------------------------------------------
(* Bounds of the model *)

MaxCmdLen == 2      \* every command over CmdAlphabet up to this length
MaxReplyLen == 2    \* every reply over ReplyAlphabet up to this length

-----------------------------------------------------------------------------
(* Program constants *)

STX == 2
ETX == 3
ACK == 6
CAN == 24
SUB == 26

None == <<>>

COM_ERROR == <<67, 79, 77, 32, 69, 82, 82, 79, 82>>                \* "COM ERROR"
SYNTAX_ERROR == <<83, 89, 78, 84, 65, 88, 32, 69, 82, 82, 79, 82>> \* "SYNTAX ERROR"
OK == <<79, 75>>                                                   \* "OK"

-----------------------------------------------------------------------------
(* Generic sequence helpers *)

Min(a, b) == IF a < b THEN a ELSE b
Max(a, b) == IF a > b THEN a ELSE b

Repeat(x, n) == [i \in 1..n |-> x]

\* All sequences over S of length at most n.
SeqsUpTo(S, n) == UNION {[1..k -> S] : k \in 0..n}

Contains(s, b) == \E i \in 1..Len(s) : s[i] = b

-----------------------------------------------------------------------------
(* Python built-ins used by send *)

\* str.upper() on one code point (exact for 0..255, 305 and 383).
UpperChar(c) ==
    IF c \in 97..122 THEN <<c - 32>>
    ELSE IF c = 181 THEN <<924>>
    ELSE IF c = 223 THEN <<83, 83>>
    ELSE IF c = 255 THEN <<376>>
    ELSE IF c \in 224..254 /\ c # 247 THEN <<c - 32>>
    ELSE IF c = 305 THEN <<73>>
    ELSE IF c = 383 THEN <<83>>
    ELSE <<c>>

RECURSIVE UpperRange(_, _, _)
UpperRange(s, lo, hi) ==
    IF lo > hi THEN <<>>
    ELSE IF lo = hi THEN UpperChar(s[lo])
    ELSE LET mid == (lo + hi) \div 2
         IN UpperRange(s, lo, mid) \o UpperRange(s, mid + 1, hi)

\* str.upper()
StrUpper(s) == UpperRange(s, 1, Len(s))

RECURSIVE SumRange(_, _, _)
SumRange(s, lo, hi) ==
    IF lo > hi THEN 0
    ELSE IF lo = hi THEN s[lo]
    ELSE LET mid == (lo + hi) \div 2
         IN SumRange(s, lo, mid) + SumRange(s, mid + 1, hi)

\* sum(ord(c) for c in s)
SumOrd(s) == SumRange(s, 1, Len(s))

\* Decimal digits of n >= 0, as code points, without padding.
RECURSIVE DecDigits(_)
DecDigits(n) ==
    IF n < 10 THEN <<48 + n>> ELSE Append(DecDigits(n \div 10), 48 + (n % 10))

HexDigit(d) == IF d < 10 THEN 48 + d ELSE 55 + d

\* Uppercase hexadecimal digits of n >= 0, as code points, without padding.
RECURSIVE HexDigits(_)
HexDigits(n) ==
    IF n < 16 THEN <<HexDigit(n)>>
    ELSE Append(HexDigits(n \div 16), HexDigit(n % 16))

\* Zero padding of a format spec 0w: pads to AT LEAST w characters.
ZeroPad(d, w) == IF Len(d) >= w THEN d ELSE Repeat(48, w - Len(d)) \o d

\* f"{n:02}", f"{n:03}", f"{n:02X}"
Fmt02(n) == ZeroPad(DecDigits(n), 2)
Fmt03(n) == ZeroPad(DecDigits(n), 3)
Fmt02X(n) == ZeroPad(HexDigits(n), 2)

\* Whether bytes(s, 'ascii') / b.decode('ascii') succeeds.
IsAscii(s) == \A i \in 1..Len(s) : s[i] < 128

\* bytes.find(b): the lowest 0-based index of b, -1 when absent.
Find(s, b) ==
    IF Contains(s, b)
    THEN (CHOOSE i \in 1..Len(s) : s[i] = b /\ \A j \in 1..(i - 1) : s[j] # b) - 1
    ELSE -1

\* s[start:stop] with Python's index normalisation.
PySlice(s, start, stop) ==
    LET n == Len(s)
        norm(i) == IF i < 0 THEN Max(i + n, 0) ELSE Min(i, n)
        a == norm(start)
        b == norm(stop)
    IN IF a < b THEN SubSeq(s, a + 1, b) ELSE <<>>

-----------------------------------------------------------------------------
(* What send produces *)

NoResult == [kind |-> "none", value |-> <<>>, exc |-> ""]
Return(v) == [kind |-> "return", value |-> v, exc |-> ""]
Raise(e) == [kind |-> "raise", value |-> <<>>, exc |-> e]

Op(name, ok, data) == [op |-> name, ok |-> ok, data |-> data]

-----------------------------------------------------------------------------
(* The computations of send *)

\* lines 60-62: the uppercased command, prefixed by the address if any
Payload(cmd, addr) ==
    LET up == StrUpper(cmd)
    IN IF addr # None THEN Fmt02(addr[1]) \o up ELSE up

\* line 63
Checksum(p) == SumOrd(p) % 256

\* line 70
FrameString(p, c) == <<STX>> \o Fmt03(Len(p)) \o p \o Fmt02X(c % 256) \o <<ETX>>

\* lines 60-71: the locals of send after encoding; ok is whether
\* bytes(lacommande_str, 'ascii') succeeds
EncodeCommand(cmd, addr) ==
    LET p == Payload(cmd, addr)
        c == Checksum(p)
        s == FrameString(p, c)
    IN [lacommande |-> p, checksum |-> c, ok |-> IsAscii(s),
        frame |-> IF IsAscii(s) THEN s ELSE <<>>]

\* A slice one byte too far: reponse[7:-4].
PayloadSlice_DropSeven(r) == PySlice(r, 7, -4)

\* line 95: reponse[6:-4]
PayloadSlice(r) == PySlice(r, 6, -4)

\* The CAN test placed before the ACK test.
Classify_CanFirst(r) ==
    IF Find(r, CAN) # -1 THEN Return(SYNTAX_ERROR)
    ELSE IF Find(r, ACK) = -1 THEN Return(COM_ERROR)
    ELSE IF Find(r, SUB) = -1 THEN Return(OK)
    ELSE IF IsAscii(PayloadSlice(r)) THEN Return(PayloadSlice(r))
    ELSE Raise("UnicodeDecodeError")

\* lines 88-95
Classify(r) ==
    IF Find(r, ACK) = -1 THEN Return(COM_ERROR)
    ELSE IF Find(r, CAN) # -1 THEN Return(SYNTAX_ERROR)
    ELSE IF Find(r, SUB) = -1 THEN Return(OK)
    ELSE IF IsAscii(PayloadSlice(r)) THEN Return(PayloadSlice(r))
    ELSE Raise("UnicodeDecodeError")

\* The two flushes in the other order.
LogFlushes_OutputFirst(l) ==
    l \o <<Op("flushOutput", TRUE, <<>>), Op("flushInput", TRUE, <<>>)>>

\* lines 58-59
LogFlushes(l) == l \o <<Op("flushInput", TRUE, <<>>), Op("flushOutput", TRUE, <<>>)>>

\* line 75
LogWrite(l, ok, data) == Append(l, Op("write", ok, data))

\* line 81
LogRead(l, ok, data) == Append(l, Op("readline", ok, data))

-----------------------------------------------------------------------------
(* Inputs *)

AddressValues == {0, 7, 99}
Addresses == {None} \cup {<<a>> : a \in AddressValues}

\* 'a', sharp s, e acute, dotless i
CmdAlphabet == {97, 223, 233, 305}

READ_STATUS == <<114, 101, 97, 100, 32, 35, 115, 116, 97, 116, 117, 115>>  \* "read #status"

\* Commands whose payload reaches and passes the width of the length field.
LongCommands == {Repeat(65, n) : n \in 997..1000}

Commands == SeqsUpTo(CmdAlphabet, MaxCmdLen) \cup {READ_STATUS}

ReplyAlphabet == {ACK, CAN, SUB, 233}

Headers ==
    { <<ACK, SUB, STX, 48, 48, 88>>,
      <<ACK, CAN, SUB, 48, 48, 88>>,
      <<ACK, STX, 48, 48, 48, 88>>,
      <<CAN, SUB, STX, 48, 48, 88>> }

ReplyPayloads ==
    { <<>>,
      <<82, 85, 78, 78, 73, 78, 71>>,    \* "RUNNING"
      OK, COM_ERROR, SYNTAX_ERROR,
      <<65, 233>>,                       \* not ASCII
      <<65, CAN>> }

Footers == { <<52, 49, ETX, 10>>, <<SUB, 49, ETX, 13>> }

FramedReplies ==
    {h \o p \o f : h \in Headers, p \in ReplyPayloads, f \in Footers}
    \cup {<<ACK>> \o h \o p \o f : h \in Headers, p \in ReplyPayloads, f \in Footers}
    \cup {h \o SubSeq(f, 1, 3) : h \in Headers, f \in Footers}

Replies == SeqsUpTo(ReplyAlphabet, MaxReplyLen) \cup FramedReplies

-----------------------------------------------------------------------------
(* State machine *)

\* lines 32-51: the constructor keeps the address and tries to open the port
Init ==
    /\ ser \in {"open", "closed", "missing"}
    /\ address \in Addresses
    /\ pc = "idle"
    /\ arg = <<>>
    /\ lacommande = <<>>
    /\ checksum = 0
    /\ frame = <<>>
    /\ reponse = <<>>
    /\ log = <<>>
    /\ result = NoResult

\* lines 117-121: the caller passes a command to send
Call(c) ==
    /\ pc = "idle"
    /\ pc' = "flush"
    /\ arg' = c
    /\ UNCHANGED <<ser, address, lacommande, checksum, frame, reponse, log, result>>

\* lines 58-59: both flushes on an open port; on a port that was never
\* opened flushInput raises, and without self.ser the attribute lookup does
FlushBuffers ==
    /\ pc = "flush"
    /\ IF ser = "open"
       THEN /\ log' = LogFlushes(log)
            /\ pc' = "encode"
            /\ UNCHANGED result
       ELSE IF ser = "closed"
       THEN /\ log' = Append(log, Op("flushInput", FALSE, <<>>))
            /\ result' = Raise("PortNotOpenError")
            /\ pc' = "done"
       ELSE /\ result' = Raise("AttributeError")
            /\ pc' = "done"
            /\ UNCHANGED log
    /\ UNCHANGED <<ser, address, arg, lacommande, checksum, frame, reponse>>

\* lines 60-71
Encode ==
    /\ pc = "encode"
    /\ LET e == EncodeCommand(arg, address)
       IN /\ lacommande' = e.lacommande
          /\ checksum' = e.checksum
          /\ IF e.ok
             THEN /\ frame' = e.frame
                  /\ pc' = "write"
                  /\ UNCHANGED result
             ELSE /\ result' = Raise("UnicodeEncodeError")
                  /\ pc' = "done"
                  /\ UNCHANGED frame
    /\ UNCHANGED <<ser, address, arg, reponse, log>>

\* line 75
WriteOk ==
    /\ pc = "write"
    /\ log' = LogWrite(log, TRUE, frame)
    /\ pc' = "read"
    /\ UNCHANGED <<ser, address, arg, lacommande, checksum, frame, reponse, result>>

\* lines 75-78: the handler's 'serial error: ' + e is str + exception
WriteFault ==
    /\ pc = "write"
    /\ log' = LogWrite(log, FALSE, frame)
    /\ result' = Raise("TypeError")
    /\ pc' = "done"
    /\ UNCHANGED <<ser, address, arg, lacommande, checksum, frame, reponse>>

\* lines 81-82
ReadReply(r) ==
    /\ pc = "read"
    /\ reponse' = r
    /\ log' = LogRead(log, TRUE, r)
    /\ pc' = "classify"
    /\ UNCHANGED <<ser, address, arg, lacommande, checksum, frame, result>>

\* lines 81-85
ReadFault ==
    /\ pc = "read"
    /\ log' = LogRead(log, FALSE, <<>>)
    /\ result' = Raise("TypeError")
    /\ pc' = "done"
    /\ UNCHANGED <<ser, address, arg, lacommande, checksum, frame, reponse>>

\* lines 88-95
ClassifyReply ==
    /\ pc = "classify"
    /\ result' = Classify(reponse)
    /\ pc' = "done"
    /\ UNCHANGED <<ser, address, arg, lacommande, checksum, frame, reponse, log>>

\* lines 116-122: the caller prints the value and asks for the next command;
\* the locals of the finished call are gone
NextCommand ==
    /\ pc = "done"
    /\ result.kind = "return"
    /\ pc' = "idle"
    /\ arg' = <<>>
    /\ lacommande' = <<>>
    /\ checksum' = 0
    /\ frame' = <<>>
    /\ reponse' = <<>>
    /\ log' = <<>>
    /\ result' = NoResult
    /\ UNCHANGED <<ser, address>>

\* the steps of send after the call, and the caller's loop
Step ==
    \/ FlushBuffers
    \/ Encode
    \/ WriteOk
    \/ WriteFault
    \/ \E r \in Replies : ReadReply(r)
    \/ ReadFault
    \/ ClassifyReply
    \/ NextCommand

Next ==
    \/ \E c \in Commands : Call(c)
    \/ Step

Spec == Init /\ [][Next]_vars

\* The same session, the caller also passing commands about 1000 characters long.
NextLong ==
    \/ \E c \in Commands \cup LongCommands : Call(c)
    \/ Step

SpecLong == Init /\ [][NextLong]_vars

-----------------------------------------------------------------------------
(* Vocabulary of the properties *)

RUNNING == <<82, 85, 78, 78, 73, 78, 71>>   \* "RUNNING"

\* n as exactly two / three decimal digits, s as exactly two hex digits
TwoDigits(n) == <<48 + ((n \div 10) % 10), 48 + (n % 10)>>
ThreeDigits(n) == <<48 + ((n \div 100) % 10), 48 + ((n \div 10) % 10), 48 + (n % 10)>>
TwoHex(s) == <<HexDigit((s \div 16) % 16), HexDigit(s % 16)>>

DropFirst(s, k) == IF Len(s) > k THEN SubSeq(s, k + 1, Len(s)) ELSE <<>>
DropLast(s, k) == IF Len(s) > k THEN SubSeq(s, 1, Len(s) - k) ELSE <<>>

\* the reply with its first 6 and last 4 bytes dropped
DropEnvelope(r) == DropLast(DropFirst(r, 6), 4)

\* the payload the frame layout prescribes for the current call
SpecPayload ==
    (IF address = None THEN <<>> ELSE TwoDigits(address[1])) \o StrUpper(arg)

\* the frame the layout prescribes around payload p with checksum c
SpecFrame(p, c) == <<STX>> \o ThreeDigits(Len(p)) \o p \o TwoHex(c) \o <<ETX>>

\* send has gone past the encoding of lines 60-71 (whether it succeeded or not)
PastEncode ==
    \/ pc \in {"write", "read", "classify"}
    \/ pc = "done" /\ Len(log) >= 2

HasOp(name) == \E i \in 1..Len(log) : log[i].op = name

\* send has read a reply and classified it
Classified == pc = "done" /\ Len(log) = 4 /\ log[4].ok

\* ACK present, CAN absent, SUB present
IsDataReply(r) == Contains(r, ACK) /\ ~Contains(r, CAN) /\ Contains(r, SUB)

\* the outcome the precedence rules give, in the representation send returns
ExpectedValue(r) ==
    IF ~Contains(r, ACK) THEN COM_ERROR
    ELSE IF Contains(r, CAN) THEN SYNTAX_ERROR
    ELSE IF ~Contains(r, SUB) THEN OK
    ELSE DropEnvelope(r)

OpNames(l) == [i \in 1..Len(l) |-> l[i].op]

TransportOrder == <<"flushInput", "flushOutput", "write", "readline">>

-----------------------------------------------------------------------------
(* Properties *)

\* C1: every frame written is STX + LEN + PAYLOAD + CHK + ETX, with PAYLOAD
\* the uppercased command prefixed by the two-digit address (if any), LEN the
\* length of PAYLOAD as three decimal digits and CHK the sum of PAYLOAD's
\* character codes mod 256 as two uppercase hex digits.
C1_FrameLayout ==
    \A i \in 1..Len(log) :
        log[i].op = "write" =>
            log[i].data = SpecFrame(SpecPayload, SumOrd(SpecPayload) % 256)

\* Lemma: for payloads the three-digit length field can hold (at most 999
\* characters), every frame written has the layout above.
FrameLayoutWithinLengthField ==
    \A i \in 1..Len(log) :
        (log[i].op = "write" /\ Len(SpecPayload) <= 999) =>
            log[i].data = SpecFrame(SpecPayload, SumOrd(SpecPayload) % 256)

\* C2 as stated: whatever the reply, send returns the outcome the precedence
\* gives: no ACK -> ComError; else CAN -> SyntaxError; else no SUB -> Ok; else
\* Data with the reply minus its first 6 and last 4 bytes.
C2_ClassificationAnyReply ==
    Classified => result = Return(ExpectedValue(reponse))

\* C2 amended: the same precedence, where the Data outcome is returned only
\* when the bytes left after dropping the first 6 and last 4 are ASCII;
\* otherwise send returns no outcome and raises UnicodeDecodeError.
C2_ClassificationPrecedence ==
    Classified =>
        IF IsDataReply(reponse) /\ ~IsAscii(DropEnvelope(reponse))
        THEN result = Raise("UnicodeDecodeError")
        ELSE result = Return(ExpectedValue(reponse))

C2_Witness ==
    /\ Classified
    /\ ~Contains(reponse, ACK)
    /\ Contains(reponse, CAN)
    /\ Contains(reponse, SUB)
    /\ result = Return(COM_ERROR)

\* C3 as stated: for a reply made of ACK, a 6-byte header, an ASCII payload p
\* and a 4-byte footer (SUB in the envelope, CAN not in it), send returns p.
C3_PayloadAfterAckAndHeader ==
    LET n == Len(reponse)
        p == SubSeq(reponse, 8, n - 4)
        envelope == SubSeq(reponse, 1, 7) \o SubSeq(reponse, n - 3, n)
    IN (/\ Classified
        /\ n >= 11
        /\ reponse[1] = ACK
        /\ IsAscii(p)
        /\ Contains(envelope, SUB)
        /\ ~Contains(envelope, CAN))
       => result = Return(p)

\* C3 amended: for a reply made of a 6-byte header that begins with ACK, an
\* ASCII payload p and a 4-byte footer, with SUB somewhere in the reply and
\* CAN nowhere in it, send returns exactly p.
C3_PayloadAfterHeader ==
    LET n == Len(reponse)
        p == SubSeq(reponse, 7, n - 4)
    IN (/\ Classified
        /\ n >= 10
        /\ reponse[1] = ACK
        /\ IsAscii(p)
        /\ Contains(reponse, SUB)
        /\ ~Contains(reponse, CAN))
       => result = Return(p)

C3_Witness ==
    /\ Classified
    /\ arg = READ_STATUS
    /\ address = <<0>>
    /\ reponse = <<ACK, SUB, STX, 48, 48, 88>> \o RUNNING \o <<52, 49, ETX, 10>>
    /\ result = Return(RUNNING)

\* C4: once a command is encoded, a payload of 1..999 bytes has a LEN field
\* of exactly three digits equal to its length, and a payload of 1000 bytes
\* or more is rejected with an encoding error and nothing is written.
C4_LengthFieldOrEncodingError ==
    PastEncode =>
        IF Len(lacommande) >= 1000
        THEN result = Raise("UnicodeEncodeError") /\ ~HasOp("write")
        ELSE frame # <<>> =>
                /\ SubSeq(frame, 2, 4) = ThreeDigits(Len(lacommande))
                /\ Len(frame) = Len(lacommande) + 7

\* C5: a reply that classifies as data but is shorter than 10 bytes, or whose
\* bytes after dropping the first 6 and last 4 are not ASCII, makes send fail
\* with a decoding error instead of returning a value.
C5_MalformedDataReplyFails ==
    (/\ Classified
     /\ IsDataReply(reponse)
     /\ (Len(reponse) < 10 \/ ~IsAscii(DropEnvelope(reponse))))
    => result = Raise("UnicodeDecodeError")

\* C6: when the write or the read faults, send surfaces the transport error
\* (serial.SerialException), returns no value, and a failed write is not
\* followed by a read.
C6_TransportFaultSurfaced ==
    (pc = "done" /\ \E i \in 1..Len(log) :
                        log[i].op \in {"write", "readline"} /\ ~log[i].ok)
    => /\ result = Raise("SerialException")
       /\ (~log[3].ok => Len(log) = 3)

\* C7: a command with a non-ASCII character is rejected with an encoding
\* error, with no write and no read; every frame written is ASCII.
C7_NonAsciiCommandRejected ==
    /\ (PastEncode /\ ~IsAscii(arg))
       => /\ result = Raise("UnicodeEncodeError")
          /\ ~HasOp("write")
          /\ ~HasOp("readline")
    /\ \A i \in 1..Len(log) : log[i].op = "write" => IsAscii(log[i].data)

\* C9: there is a sentinel character (among the code points UpperChar covers)
\* such that a command starting with it is encoded as the same command
\* without it (same payload, same LEN) with the checksum one higher mod 256.
C9_SentinelStripped ==
    \E s \in (0..255) \cup {305, 383} :
        \A c \in SeqsUpTo(CmdAlphabet, 1) :
            LET with == EncodeCommand(<<s>> \o c, address)
                without == EncodeCommand(c, address)
            IN without.ok =>
                /\ with.ok
                /\ with.lacommande = without.lacommande
                /\ with.frame = SpecFrame(without.lacommande,
                                          (without.checksum + 1) % 256)

\* C8: the transport operations of one call are a prefix of flushInput,
\* flushOutput, write, readline, each at most once, the write carrying the
\* frame, whatever the reply or the outcome.
C8_TransportOrder ==
    /\ Len(log) <= 4
    /\ OpNames(log) = SubSeq(TransportOrder, 1, Len(log))
    /\ Len(log) >= 3 => log[3].data = frame
    /\ pc \in {"read", "classify"} => Len(log) >= 3
    /\ pc = "classify" => Len(log) = 4

C8_Witness ==
    /\ pc = "done"
    /\ Len(log) = 4
    /\ reponse = <<>>
    /\ result = Return(COM_ERROR)

\* C10: the value returned for a data reply differs from the values returned
\* for the ComError, SyntaxError and Ok outcomes.
C10_OutcomesDistinguishable ==
    (Classified /\ IsDataReply(reponse) /\ result.kind = "return")
    => result.value \notin {COM_ERROR, SYNTAX_ERROR, OK}

====
